---- MODULE Spec2Model ----
(***************************************************************************)
(* Model of the SSO identity provider: the bearer-token API (login,        *)
(* register, logout, settings), the admin API, the userinfo endpoint and   *)
(* the OAuth2 validator callbacks, over one user/permission store.         *)
(***************************************************************************)
EXTENDS Integers, Sequences, FiniteSets, TLC

\* ---------------------------------------------------------------- bounds
MaxUsers == 2
MaxPairs == 2
MaxEpoch == 2
MaxOAuth == 1
MaxReqs == 2
MaxNextLen == 4
MaxPerms == 3

\* ------------------------------------------------------ input universes
Usernames == {"alice", "bob"}
Emails == {"a@x", "b@x"}
Passwords == {"pw1", "pw2"}
Empty == ""
Absent == "absent"
Tri == {"true", "false", Absent}

AllowedScopes == {"username", "email", "permissions"}
ScopeNames == AllowedScopes \cup {"admin"}

\* ----------------------------------------------------------------- state
VARIABLES
    users,      \* User table: row id -> record, or Tombstone once deleted
    perms,      \* Permission table: row id -> [admin_user, create_applications]
    pairs,      \* token pairs signed so far: pair k -> [uid, ver] (the claims)
    expiry,     \* pair k -> 0 both live, 1 access expired, 2 both expired
    blacklist,  \* refresh tokens (pair ids) in the simplejwt blacklist
    sessions,   \* users whose browser holds a live Django session
    oauth,      \* OAuth2 AccessToken rows: [alive, uid, scope, expired]
    inflight,   \* requests between two store accesses: slot -> request
    revoked,    \* history: pairs issued for a principal before it logged out
    resp        \* the response (and what it resolved) of the last request

vars == <<users, perms, pairs, expiry, blacklist, sessions, oauth, inflight, revoked, resp>>

Tombstone == [alive |-> FALSE]

NoTok == [type |-> "none", k |-> 0]
Malformed == [type |-> "garbage", k |-> 0]
Access(k) == [type |-> "access", k |-> k]
Refresh(k) == [type |-> "refresh", k |-> k]

Exists(u) == u \in 1..Len(users) /\ users[u].alive
UserIds == {u \in 1..Len(users) : users[u].alive}

\* getattr(user, 'permission', None): the Permission row, or 0 for None
PermissionOf(u) == users[u].permission

NoBody == <<>>

Response(op, status, detail) ==
    [op |-> op, status |-> status, detail |-> detail, user |-> 0,
     tok |-> NoTok, ref |-> NoTok, refOk |-> FALSE, ver0 |-> 0, refVer0 |-> 0,
     scopes |-> {}, body |-> NoBody]

Idle == Response("none", 0, "")

Slots == 1..MaxReqs

\* A worker with no request in hand
IdleReq == [op |-> "idle", pc |-> "idle", uid |-> 0, copy |-> Tombstone,
            ref |-> NoTok, old |-> Empty, new |-> Empty,
            name |-> Empty, password |-> Empty, flags |-> <<>>, perm |-> 0,
            pk |-> 0, data |-> <<>>]

\* ------------------------------------------------------- token handling
\* RefreshToken.for_user(user); refresh['ver'] = user.token_version; the
\* access token copies every claim of the refresh token but type, exp, jti.
CreateTokenPayload_Stale(u, row) == [uid |-> u, ver |-> 0]

CreateTokenPayload(u, row) == [uid |-> u, ver |-> row.token_version]

Signed(t) == t.k \in 1..Len(pairs)

IsExpired(t) ==
    IF t.type = "access" THEN expiry[t.k] >= 1 ELSE expiry[t.k] >= 2

\* CustomJWTAuthentication.get_user: the user the validated token names,
\* refused when it is gone, inactive or on another token version.
GetUser(c) ==
    IF ~Exists(c.uid) THEN [uid |-> 0, err |-> "User not found"]
    ELSE IF ~users[c.uid].is_active THEN [uid |-> 0, err |-> "User is inactive"]
    ELSE IF c.ver # users[c.uid].token_version
    THEN [uid |-> 0, err |-> "Token version mismatch"]
    ELSE [uid |-> c.uid, err |-> ""]

\* JWTAuthentication.authenticate: header, token validation, get_user
Verify(t) ==
    IF t = NoTok THEN [uid |-> 0, err |-> "Authentication credentials were not provided."]
    ELSE IF ~(t.type = "access" /\ Signed(t)) \/ IsExpired(t)
    THEN [uid |-> 0, err |-> "Given token not valid for any token type"]
    ELSE GetUser(pairs[t.k])

RefreshTokenValid_NoBlacklist(t) ==
    /\ t.type = "refresh"
    /\ Signed(t)
    /\ ~IsExpired(t)

\* RefreshToken(refresh_token): signature, type, expiry and blacklist checks.
RefreshTokenValid(t) ==
    /\ t.type = "refresh"
    /\ Signed(t)
    /\ ~IsExpired(t)
    /\ t.k \notin blacklist

\* The stored epoch of the principal a signed token names, -1 if it is gone
StoredEpoch(t) ==
    IF Signed(t) /\ Exists(pairs[t.k].uid) THEN users[pairs[t.k].uid].token_version ELSE -1

\* The 401 response DRF builds from the AuthenticationFailed raised for t
Unauthorized(t) == Response("bearer", 401, Verify(t).err)

\* permission_classes = [IsAuthenticated] with CustomJWTAuthentication: a
\* request whose bearer token does not verify never reaches the handler.
Reject(t) ==
    /\ Verify(t).uid = 0
    /\ resp' = Unauthorized(t)
    /\ UNCHANGED <<inflight, users, perms, pairs, expiry, blacklist, sessions, oauth, revoked>>

\* --------------------------------------------------------------- Init
\* Column defaults of the two fields the views use beside those of models.py
TokenVersionDefault == 0
CreateApplicationsDefault == FALSE

NewPermission(a, c) == [admin_user |-> a, create_applications |-> c]

\* User.objects.create_user(...): a new active row with the model defaults
CreateUser(username, email, password, p) ==
    [alive |-> TRUE, username |-> username, email |-> email, password |-> password,
     is_active |-> TRUE, token_version |-> TokenVersionDefault, permission |-> p]

\* The deployment's first account (createsuperuser), made portal admin
\* through the Django admin site; nobody has logged in yet.
Init ==
    /\ users = <<CreateUser("alice", "a@x", "pw1", 1)>>
    /\ perms = <<NewPermission(TRUE, FALSE)>>
    /\ pairs = <<>>
    /\ expiry = <<>>
    /\ blacklist = {}
    /\ sessions = {}
    /\ oauth = <<>>
    /\ inflight = [s \in Slots |-> IdleReq]
    /\ revoked = {}
    /\ resp = Idle

\* ----------------------------------------------------------- bearer API
\* django.contrib.auth.authenticate with the model backend
Authenticate(username, password) ==
    LET m == {u \in UserIds : users[u].username = username
                              /\ users[u].password = password
                              /\ users[u].is_active}
    IN IF m = {} THEN 0 ELSE CHOOSE u \in m : TRUE

Login(username, password) ==
    LET user == Authenticate(username, password) IN
    IF username = Empty \/ password = Empty \/ user = 0 \/ ~users[user].is_active
    THEN /\ resp' = Response("login", 400, "Invalid username or password")
         /\ UNCHANGED <<inflight, users, perms, pairs, expiry, blacklist, sessions, oauth, revoked>>
    ELSE /\ Len(pairs) < MaxPairs
         /\ pairs' = Append(pairs, CreateTokenPayload(user, users[user]))
         /\ expiry' = Append(expiry, 0)
         /\ sessions' = sessions \cup {user}
         /\ resp' = [Response("login", 200, "") EXCEPT !.user = user,
                        !.tok = Access(Len(pairs) + 1), !.ref = Refresh(Len(pairs) + 1),
                        !.ver0 = users[user].token_version]
         /\ UNCHANGED <<inflight, users, perms, blacklist, oauth, revoked>>

\* UserAuthSerializer: required fields and the unique validators of the
\* User model's username and email columns.
UserAuthSerializerValid(username, email, password) ==
    /\ username # Empty /\ email # Empty /\ password # Empty
    /\ \A u \in UserIds : users[u].username # username /\ users[u].email # email

Register(username, email, password) ==
    LET id == Len(users) + 1
        row == CreateUser(username, email, password, Len(perms) + 1) IN
    IF ~UserAuthSerializerValid(username, email, password)
    THEN /\ resp' = Response("register", 400, "validation")
         /\ UNCHANGED <<inflight, users, perms, pairs, expiry, blacklist, sessions, oauth, revoked>>
    ELSE /\ Len(users) < MaxUsers
         /\ Len(pairs) < MaxPairs
         /\ perms' = Append(perms, NewPermission(FALSE, CreateApplicationsDefault))
         /\ users' = Append(users, row)
         /\ pairs' = Append(pairs, CreateTokenPayload(id, row))
         /\ expiry' = Append(expiry, 0)
         /\ sessions' = sessions \cup {id}
         /\ resp' = [Response("register", 200, "") EXCEPT !.user = id,
                        !.tok = Access(Len(pairs) + 1), !.ref = Refresh(Len(pairs) + 1),
                        !.ver0 = row.token_version]
         /\ UNCHANGED <<inflight, blacklist, oauth, revoked>>

Logout(t, r) ==
    LET v == Verify(t) IN
    /\ v.uid # 0
    /\ IF r # NoTok /\ ~RefreshTokenValid(r)
       THEN /\ resp' = [Response("logout", 400, "Invalid token") EXCEPT !.user = v.uid,
                           !.tok = t, !.ref = r, !.ver0 = users[v.uid].token_version]
            /\ UNCHANGED <<inflight, users, perms, pairs, expiry, blacklist, sessions, oauth, revoked>>
       ELSE /\ users[v.uid].token_version < MaxEpoch
            /\ blacklist' = IF r # NoTok THEN blacklist \cup {r.k} ELSE blacklist
            /\ users' = [users EXCEPT ![v.uid].token_version = @ + 1]
            /\ sessions' = sessions \ {v.uid}
            /\ revoked' = revoked \cup {k \in 1..Len(pairs) : pairs[k].uid = v.uid}
            /\ resp' = [Response("logout", 200, "Logged out successfully") EXCEPT
                           !.user = v.uid, !.tok = t, !.ref = r, !.refOk = (r # NoTok),
                           !.ver0 = users[v.uid].token_version,
                           !.refVer0 = IF r # NoTok THEN StoredEpoch(r) ELSE 0]
            /\ UNCHANGED <<inflight, perms, pairs, expiry, oauth>>

\* ModelViewSet.destroy on the 'user' route: get_object over all users, then
\* delete; the OAuth2 access tokens of the deleted user go with it.
Destroy(t, pk) ==
    LET v == Verify(t) IN
    /\ v.uid # 0
    /\ IF ~Exists(pk)
       THEN /\ resp' = [Response("destroy", 404, "Not found.") EXCEPT !.user = v.uid,
                           !.tok = t, !.ver0 = users[v.uid].token_version]
            /\ UNCHANGED <<inflight, users, perms, pairs, expiry, blacklist, sessions, oauth, revoked>>
       ELSE /\ users' = [users EXCEPT ![pk] = Tombstone]
            /\ oauth' = [i \in 1..Len(oauth) |->
                            IF oauth[i].alive /\ oauth[i].uid = pk THEN Tombstone ELSE oauth[i]]
            /\ sessions' = sessions \ {pk}
            /\ resp' = [Response("destroy", 204, "") EXCEPT !.user = v.uid,
                           !.tok = t, !.ver0 = users[v.uid].token_version]
            /\ UNCHANGED <<inflight, perms, pairs, expiry, blacklist, revoked>>

\* The other routes the 'user' ModelViewSet registers (list, create, retrieve,
\* update, partial_update) ask for a serializer class, the view set names
\* none, and the request ends in a server error before any store access.
SerializerRoute(t) ==
    LET v == Verify(t) IN
    /\ v.uid # 0
    /\ resp' = [Response("model_route", 500, "serializer_class") EXCEPT !.user = v.uid,
                   !.tok = t, !.ver0 = users[v.uid].token_version]
    /\ UNCHANGED <<inflight, users, perms, pairs, expiry, blacklist, sessions, oauth, revoked>>

\* ---------------------------------------------------------- settings API
\* UserSettingsSerializer: id, username, email, permission {admin_user}
UserSettingsData(u) ==
    [id |-> u, username |-> users[u].username, email |-> users[u].email,
     permission |-> IF PermissionOf(u) = 0 THEN "null"
                    ELSE IF perms[PermissionOf(u)].admin_user THEN "admin_user:true"
                    ELSE "admin_user:false"]

GetInfo(t) ==
    LET v == Verify(t) IN
    /\ v.uid # 0
    /\ resp' = [Response("get_info", 200, "") EXCEPT !.user = v.uid, !.tok = t,
                   !.ver0 = users[v.uid].token_version,
                   !.body = UserSettingsData(v.uid)]
    /\ UNCHANGED <<inflight, users, perms, pairs, expiry, blacklist, sessions, oauth, revoked>>

ChangePassword(t, old, new) ==
    LET v == Verify(t) IN
    /\ v.uid # 0
    /\ IF old = Empty \/ new = Empty \/ users[v.uid].password # old
       THEN /\ resp' = [Response("change_password", 400,
                           IF old = Empty \/ new = Empty
                           THEN "Both old and new passwords are required"
                           ELSE "Old password is incorrect") EXCEPT
                           !.user = v.uid, !.tok = t, !.ver0 = users[v.uid].token_version]
            /\ UNCHANGED <<inflight, users, perms, pairs, expiry, blacklist, sessions, oauth, revoked>>
       ELSE /\ users' = [users EXCEPT ![v.uid].password = new]
            \* the session hash is derived from the password hash
            /\ sessions' = sessions \ {v.uid}
            /\ resp' = [Response("change_password", 200, "Password changed successfully")
                           EXCEPT !.user = v.uid, !.tok = t,
                                  !.ver0 = users[v.uid].token_version]
            /\ UNCHANGED <<inflight, perms, pairs, expiry, blacklist, oauth, revoked>>

ChangeEmail(t, new_email) ==
    LET v == Verify(t) IN
    /\ v.uid # 0
    /\ IF new_email = Empty \/ (\E o \in UserIds \ {v.uid} : users[o].email = new_email)
       THEN /\ resp' = [Response("change_email", 400,
                           IF new_email = Empty THEN "New email is required"
                           ELSE "Email already exists") EXCEPT
                           !.user = v.uid, !.tok = t, !.ver0 = users[v.uid].token_version]
            /\ UNCHANGED <<inflight, users, perms, pairs, expiry, blacklist, sessions, oauth, revoked>>
       ELSE /\ users' = [users EXCEPT ![v.uid].email = new_email]
            /\ resp' = [Response("change_email", 200, "Email changed successfully") EXCEPT
                           !.user = v.uid, !.tok = t, !.ver0 = users[v.uid].token_version]
            /\ UNCHANGED <<inflight, perms, pairs, expiry, blacklist, sessions, oauth, revoked>>

\* Time passes: the access token of a pair expires before its refresh token
Expire(k) ==
    /\ expiry[k] < 2
    /\ expiry' = [expiry EXCEPT ![k] = @ + 1]
    /\ resp' = Idle
    /\ UNCHANGED <<inflight, users, perms, pairs, blacklist, sessions, oauth, revoked>>

\* ------------------------------------------------------------ admin API
\* SessionAuthentication: the user of the request's session, if it is still
\* there and active; 0 stands for AnonymousUser.
SessionUser(c) ==
    IF c \in sessions /\ Exists(c) /\ users[c].is_active THEN c ELSE 0

IsPortalAdmin_Authenticated(user) == user # 0

IsPortalAdmin_AnyPermission(user) ==
    IF user = 0 THEN FALSE
    ELSE PermissionOf(user) # 0

\* IsPortalAdmin.has_permission
IsPortalAdmin(user) ==
    IF user = 0 THEN FALSE
    ELSE PermissionOf(user) # 0 /\ perms[PermissionOf(user)].admin_user

\* permission_classes = [IsAuthenticated, IsPortalAdmin] refuse the request
AdminDenied(c) ==
    /\ ~IsPortalAdmin(SessionUser(c))
    /\ resp' = [Response("admin", 403,
                   IF SessionUser(c) = 0
                   THEN "Authentication credentials were not provided."
                   ELSE "You do not have permission to perform this action.")
                   EXCEPT !.user = SessionUser(c)]
    /\ UNCHANGED <<inflight, users, perms, pairs, expiry, blacklist, sessions, oauth, revoked>>

AdminList(c) ==
    /\ IsPortalAdmin(SessionUser(c))
    /\ resp' = [Response("admin_list", 200, "") EXCEPT !.user = c, !.body = UserIds]
    /\ UNCHANGED <<inflight, users, perms, pairs, expiry, blacklist, sessions, oauth, revoked>>

TriBool(x) == x = "true"

\* AdminUserSerializer.update on the row pk with the validated data d
AdminUserSerializerUpdate(pk, d) ==
    LET row1 == IF d.email # Absent THEN [users[pk] EXCEPT !.email = d.email] ELSE users[pk]
        row2 == IF d.is_active # Absent
                THEN [row1 EXCEPT !.is_active = TriBool(d.is_active)] ELSE row1
    IN
    IF ~d.permission.given
    THEN /\ users' = [users EXCEPT ![pk] = row2]
         /\ perms' = perms
    ELSE IF PermissionOf(pk) = 0
    THEN /\ perms' = Append(perms, NewPermission(TriBool(d.permission.admin_user),
                                                TriBool(d.permission.create_applications)))
         /\ users' = [users EXCEPT ![pk] = [row2 EXCEPT !.permission = Len(perms) + 1]]
    ELSE /\ perms' = [perms EXCEPT ![PermissionOf(pk)] =
                [admin_user |-> IF d.permission.admin_user # Absent
                                THEN TriBool(d.permission.admin_user) ELSE @.admin_user,
                 create_applications |-> IF d.permission.create_applications # Absent
                                         THEN TriBool(d.permission.create_applications)
                                         ELSE @.create_applications]]
         /\ users' = [users EXCEPT ![pk] = row2]

AdminPartialUpdate(c, pk, d) ==
    /\ IsPortalAdmin(SessionUser(c))
    /\ IF ~Exists(pk)
       THEN /\ resp' = [Response("admin_update", 404, "Not found.") EXCEPT !.user = c]
            /\ UNCHANGED <<inflight, users, perms, pairs, expiry, blacklist, sessions, oauth, revoked>>
       ELSE IF d.email = Empty
               \/ (d.email # Absent /\ \E o \in UserIds \ {pk} : users[o].email = d.email)
       THEN /\ resp' = [Response("admin_update", 400, "validation") EXCEPT !.user = c]
            /\ UNCHANGED <<inflight, users, perms, pairs, expiry, blacklist, sessions, oauth, revoked>>
       ELSE /\ AdminUserSerializerUpdate(pk, d)
            /\ resp' = [Response("admin_update", 200, "") EXCEPT !.user = c, !.body = pk]
            /\ UNCHANGED <<inflight, pairs, expiry, blacklist, sessions, oauth, revoked>>

\* AdminCreateUserSerializer: validate_username, validate_email, then create
AdminCreate(c, username, email, password, a, ca) ==
    /\ IsPortalAdmin(SessionUser(c))
    /\ IF username = Empty \/ email = Empty \/ password = Empty
          \/ (\E o \in UserIds : users[o].username = username)
          \/ (\E o \in UserIds : users[o].email = email)
       THEN /\ resp' = [Response("admin_create", 400, "validation") EXCEPT !.user = c]
            /\ UNCHANGED <<inflight, users, perms, pairs, expiry, blacklist, sessions, oauth, revoked>>
       ELSE /\ Len(users) < MaxUsers
            /\ perms' = Append(perms, NewPermission(a, ca))
            /\ users' = Append(users, CreateUser(username, email, password, Len(perms) + 1))
            /\ resp' = [Response("admin_create", 201, "") EXCEPT !.user = c,
                           !.body = Len(users) + 1]
            /\ UNCHANGED <<inflight, pairs, expiry, blacklist, sessions, oauth, revoked>>

\* ------------------------------------------------- OAuth2 claims and scopes
NoPermission == [missing |-> TRUE]

\* getattr(user, 'permission', None) as a row
PermissionRow(u) == IF PermissionOf(u) = 0 THEN NoPermission ELSE perms[PermissionOf(u)]

PermissionsClaim_AdminOnly(permission) ==
    IF permission # NoPermission
    THEN [admin_user |-> permission.admin_user, create_applications |-> FALSE]
    ELSE [admin_user |-> FALSE, create_applications |-> FALSE]

PermissionsClaim(permission) ==
    IF permission # NoPermission
    THEN [admin_user |-> permission.admin_user,
          create_applications |-> permission.create_applications]
    ELSE [admin_user |-> FALSE, create_applications |-> FALSE]

\* The user_info dict UserInfoView.get builds for the token's user and scopes
UserInfoClaims(u, scopes) ==
    LET keys == {"sub"} \cup (IF "username" \in scopes THEN {"username"} ELSE {})
                        \cup (IF "email" \in scopes THEN {"email"} ELSE {})
                        \cup (IF "permissions" \in scopes THEN {"permissions"} ELSE {})
    IN [k \in keys |->
          CASE k = "sub" -> ToString(u)
            [] k = "username" -> users[u].username
            [] k = "email" -> users[u].email
            [] k = "permissions" -> PermissionsClaim(PermissionRow(u))]

GetAdditionalClaims_NoEmail(u, scopes) ==
    IF u = 0 THEN <<>>
    ELSE LET keys == (IF "username" \in scopes THEN {"username"} ELSE {})
                     \cup (IF "permissions" \in scopes THEN {"permissions"} ELSE {})
         IN [k \in keys |->
               CASE k = "username" -> users[u].username
                 [] k = "permissions" -> PermissionsClaim(PermissionRow(u))]

\* CustomOAuth2Validator.get_additional_claims for request.user, request.scopes
GetAdditionalClaims(u, scopes) ==
    IF u = 0 THEN <<>>
    ELSE LET keys == (IF "username" \in scopes THEN {"username"} ELSE {})
                     \cup (IF "email" \in scopes THEN {"email"} ELSE {})
                     \cup (IF "permissions" \in scopes THEN {"permissions"} ELSE {})
         IN [k \in keys |->
               CASE k = "username" -> users[u].username
                 [] k = "email" -> users[u].email
                 [] k = "permissions" -> PermissionsClaim(PermissionRow(u))]

ValidateScopes_Any(scopes) == \E scope \in scopes : scope \in AllowedScopes

\* CustomOAuth2Validator.validate_scopes
ValidateScopes(scopes) == \A scope \in scopes : scope \in AllowedScopes

\* The OAuth2 engine issues an access token to a logged-in user for the
\* scopes its validator accepted.
Grant(c, scopes) ==
    /\ SessionUser(c) # 0
    /\ ValidateScopes(scopes)
    /\ Len(oauth) < MaxOAuth
    /\ oauth' = Append(oauth, [alive |-> TRUE, uid |-> c, scope |-> scopes, expired |-> FALSE])
    /\ resp' = [Response("grant", 200, "") EXCEPT !.user = c, !.scopes = scopes]
    /\ UNCHANGED <<inflight, users, perms, pairs, expiry, blacklist, sessions, revoked>>

\* The engine issues an access token to a client application under the
\* client-credentials grant: the AccessToken row has no user.
ClientCredentialsGrant(scopes) ==
    /\ ValidateScopes(scopes)
    /\ Len(oauth) < MaxOAuth
    /\ oauth' = Append(oauth, [alive |-> TRUE, uid |-> 0, scope |-> scopes, expired |-> FALSE])
    /\ resp' = [Response("grant", 200, "") EXCEPT !.scopes = scopes]
    /\ UNCHANGED <<inflight, users, perms, pairs, expiry, blacklist, sessions, revoked>>

OAuthExpire(i) ==
    /\ oauth[i].alive /\ ~oauth[i].expired
    /\ oauth' = [oauth EXCEPT ![i].expired = TRUE]
    /\ resp' = Idle
    /\ UNCHANGED <<inflight, users, perms, pairs, expiry, blacklist, sessions, revoked>>

NoHeader == [kind |-> "none", i |-> 0]
BasicHeader == [kind |-> "basic", i |-> 0]
\* 'Bearer <token>': the token string of AccessToken row i, 0 for an unknown one
BearerHeader(i) == [kind |-> "bearer", i |-> i]

UserInfo(h) ==
    /\ resp' =
        [(IF h.kind # "bearer"
          THEN Response("userinfo", 401, "Missing or invalid Authorization header")
          ELSE IF ~(h.i \in 1..Len(oauth) /\ oauth[h.i].alive)
          THEN Response("userinfo", 401, "Invalid token")
          ELSE IF oauth[h.i].expired
          THEN Response("userinfo", 401, "Token expired")
          ELSE IF oauth[h.i].uid = 0
          \* access_token.user is None: user.id raises AttributeError
          THEN Response("userinfo", 500, "AttributeError")
          ELSE [Response("userinfo", 200, "") EXCEPT !.user = oauth[h.i].uid,
                   !.scopes = oauth[h.i].scope,
                   !.body = UserInfoClaims(oauth[h.i].uid, oauth[h.i].scope)])
         EXCEPT !.tok = [type |-> h.kind, k |-> h.i]]
    /\ UNCHANGED <<inflight, users, perms, pairs, expiry, blacklist, sessions, oauth, revoked>>

\* The engine calls the two validator callbacks
AdditionalClaims(u, scopes) ==
    /\ resp' = [Response("get_additional_claims", 200, "") EXCEPT !.user = u,
                   !.scopes = scopes, !.body = GetAdditionalClaims(u, scopes)]
    /\ UNCHANGED <<inflight, users, perms, pairs, expiry, blacklist, sessions, oauth, revoked>>

ValidateScopesCall(scopes) ==
    /\ resp' = [Response("validate_scopes", IF ValidateScopes(scopes) THEN 200 ELSE 400, "")
                   EXCEPT !.scopes = scopes]
    /\ UNCHANGED <<inflight, users, perms, pairs, expiry, blacklist, sessions, oauth, revoked>>

\* ------------------------------------------------------ portal-style routes
\* URLs are sequences of characters; a run of letters counts as one character.
Reserved == {"/", ":", "?"}
SchemeChar(c) == c \notin Reserved

\* str.find over a set of characters, from position 'from'; 0 when none
Find(url, cs, from) ==
    LET hits == {i \in from..Len(url) : url[i] \in cs}
    IN IF hits = {} THEN 0 ELSE CHOOSE i \in hits : \A j \in hits : i <= j

\* urllib.parse.urlparse: the scheme before the first ':' when everything
\* before it is a scheme character, then the netloc after a leading '//' up
\* to the next '/', '?' or '#'.
UrlParse(url) ==
    LET i == Find(url, {":"}, 1)
        hasScheme == i > 1 /\ \A j \in 1..(i - 1) : SchemeChar(url[j])
        rest == IF hasScheme THEN SubSeq(url, i + 1, Len(url)) ELSE url
        slashes == Len(rest) >= 2 /\ rest[1] = "/" /\ rest[2] = "/"
        d == Find(rest, {"/", "?", "#"}, 3)
    IN [scheme |-> IF hasScheme THEN SubSeq(url, 1, i - 1) ELSE <<>>,
        netloc |-> IF ~slashes THEN <<>>
                   ELSE IF d = 0 THEN SubSeq(rest, 3, Len(rest))
                   ELSE SubSeq(rest, 3, d - 1)]

\* PortalView.get_context_data: the nextUrl the login portal hands to its page
NextUrl(next_url) ==
    IF next_url = <<>> THEN <<>>
    ELSE IF UrlParse(next_url).scheme # <<>> \/ UrlParse(next_url).netloc # <<>> THEN <<>>
    ELSE IF next_url[1] # "/" THEN <<"/">> \o next_url
    ELSE next_url

\* GET /portal/?next=...
Portal(next_url) ==
    /\ resp' = [Response("portal", 200, "") EXCEPT
                   !.body = [next |-> next_url, nextUrl |-> NextUrl(next_url)]]
    /\ UNCHANGED <<inflight, users, perms, pairs, expiry, blacklist, sessions, oauth, revoked>>

\* urlencode / QueryDict: percent-encoding of one character and its inverse
Quote(c) ==
    CASE c = "/" -> "%2F" [] c = ":" -> "%3A" [] c = "?" -> "%3F" [] OTHER -> c

Unquote(c) ==
    CASE c = "%2F" -> "/" [] c = "%3A" -> ":" [] c = "%3F" -> "?" [] OTHER -> c

UrlEncode(path) == [i \in 1..Len(path) |-> Quote(path[i])]
QueryValue(q) == [i \in 1..Len(q) |-> Unquote(q[i])]

\* reverse('sso_auth_portal')
LoginPortal == <<"/", "portal", "/">>

NoRedirect == <<>>

PortalResponse(op, status, detail, user, path, location, next) ==
    [Response(op, status, detail) EXCEPT !.user = user,
        !.body = [path |-> path, location |-> location, next |-> next]]

\* AdminPermissionRequiredMixin.dispatch in front of AdminPortalView
AdminPortalDispatch(user) ==
    IF user = 0 THEN "redirect"
    ELSE IF PermissionOf(user) = 0 \/ ~perms[PermissionOf(user)].admin_user THEN "forbidden"
    ELSE "view"

AdminPortal(c, path) ==
    LET user == SessionUser(c)
        d == AdminPortalDispatch(user) IN
    /\ resp' = IF d = "redirect"
               THEN PortalResponse("admin_portal", 302, "", user, path,
                                   LoginPortal, UrlEncode(path))
               ELSE IF d = "forbidden"
               THEN PortalResponse("admin_portal", 403,
                                   "You do not have access to the admin portal.",
                                   user, path, NoRedirect, <<>>)
               ELSE PortalResponse("admin_portal", 200, "", user, path, NoRedirect, <<>>)
    /\ UNCHANGED <<inflight, users, perms, pairs, expiry, blacklist, sessions, oauth, revoked>>

TestFunc_OrAdmin(user) ==
    IF user = 0 THEN FALSE
    ELSE PermissionOf(user) # 0
         /\ (perms[PermissionOf(user)].create_applications
             \/ perms[PermissionOf(user)].admin_user)

\* CreateApplicationsPermissionRequiredMixin.test_func
TestFunc(user) ==
    IF user = 0 THEN FALSE
    ELSE PermissionOf(user) # 0 /\ perms[PermissionOf(user)].create_applications

\* LoginRequiredMixin.dispatch, then UserPassesTestMixin.dispatch, both ending
\* in handle_no_permission, which raises PermissionDenied when raise_exception
\* is set and redirects to login_url only when it is not.
ApplicationsDispatch(user) ==
    LET raise_exception == TRUE IN
    IF user = 0 THEN (IF raise_exception THEN "forbidden" ELSE "redirect")
    ELSE IF ~TestFunc(user) THEN "forbidden"
    ELSE "view"

\* The five Protected application views of the OAuth2 management routes
Applications(c, path) ==
    LET user == SessionUser(c)
        d == ApplicationsDispatch(user) IN
    /\ resp' = IF d = "redirect"
               THEN PortalResponse("applications", 302, "", user, path,
                                   LoginPortal, UrlEncode(path))
               ELSE IF d = "forbidden"
               THEN PortalResponse("applications", 403, "403 Forbidden",
                                   user, path, NoRedirect, <<>>)
               ELSE PortalResponse("applications", 200, "", user, path, NoRedirect, <<>>)
    /\ UNCHANGED <<inflight, users, perms, pairs, expiry, blacklist, sessions, oauth, revoked>>

\* ------------------------------------------------------- specifications
\* Tokens a client can present: nothing, garbage, or any token signed so far
Presentable ==
    {NoTok, Malformed} \cup {Access(k) : k \in 1..Len(pairs)}
                       \cup {Refresh(k) : k \in 1..Len(pairs)}

Headers == {NoHeader, BasicHeader} \cup {BearerHeader(i) : i \in 0..Len(oauth)}

NoPermissionData == [given |-> FALSE, admin_user |-> Absent, create_applications |-> Absent]

\* Admin payloads that set only the active flag
ActiveData == {[email |-> Absent, is_active |-> a, permission |-> NoPermissionData] :
                 a \in {"true", "false"}}

Next ==
    \/ \E n \in Usernames \cup {Empty}, p \in Passwords \cup {Empty} : Login(n, p)
    \/ \E n \in Usernames \cup {Empty}, e \in Emails \cup {Empty},
          p \in Passwords \cup {Empty} : Register(n, e, p)
    \/ \E t \in Presentable : Reject(t)
    \/ \E t \in Presentable, r \in Presentable : Logout(t, r)
    \/ \E t \in Presentable, pk \in 1..MaxUsers : Destroy(t, pk)
    \/ \E t \in Presentable : SerializerRoute(t)
    \/ \E t \in Presentable : GetInfo(t)
    \/ \E t \in Presentable, o \in Passwords \cup {Empty}, n \in Passwords \cup {Empty} :
          ChangePassword(t, o, n)
    \/ \E t \in Presentable, e \in Emails \cup {Empty} : ChangeEmail(t, e)
    \/ \E k \in 1..Len(pairs) : Expire(k)
    \/ \E c \in 0..MaxUsers : AdminDenied(c)
    \/ \E c \in 1..MaxUsers, pk \in 1..MaxUsers, d \in ActiveData : AdminPartialUpdate(c, pk, d)

Spec == Init /\ [][Next]_vars

\* ------------------------------------------ requests served concurrently
\* Each worker serves one request at a time; a step is one store access.
\* request.user is the row CustomJWTAuthentication loaded, kept by the
\* request as its own copy until the handler saves it.
CAuth(s, op, t, r, old, new) ==
    LET v == Verify(t) IN
    /\ inflight[s] = IdleReq
    /\ v.uid # 0
    /\ inflight' = [inflight EXCEPT ![s] =
                       [IdleReq EXCEPT !.op = op, !.pc = "body", !.uid = v.uid,
                           !.copy = users[v.uid], !.ref = r, !.old = old, !.new = new]]
    /\ resp' = Idle
    /\ UNCHANGED <<users, perms, pairs, expiry, blacklist, sessions, oauth, revoked>>

\* logout, lines 101-106: RefreshToken(refresh_token) and token.blacklist()
CLogoutBlacklist(s) ==
    LET q == inflight[s] IN
    /\ q.op = "logout" /\ q.pc = "body"
    /\ IF q.ref # NoTok /\ ~RefreshTokenValid(q.ref)
       THEN /\ resp' = [Response("logout", 400, "Invalid token") EXCEPT !.user = q.uid,
                           !.ref = q.ref, !.ver0 = users[q.uid].token_version]
            /\ inflight' = [inflight EXCEPT ![s] = IdleReq]
            /\ UNCHANGED <<users, perms, pairs, expiry, blacklist, sessions, oauth, revoked>>
       ELSE /\ blacklist' = IF q.ref # NoTok THEN blacklist \cup {q.ref.k} ELSE blacklist
            /\ inflight' = [inflight EXCEPT ![s].pc = "save"]
            /\ resp' = Idle
            /\ UNCHANGED <<users, perms, pairs, expiry, sessions, oauth, revoked>>

\* logout, lines 108-114: the increment is made on the request's copy and
\* save(update_fields=['token_version']) writes that value to the row.
CLogoutSave(s) ==
    LET q == inflight[s] IN
    /\ q.op = "logout" /\ q.pc = "save"
    /\ q.copy.token_version < MaxEpoch
    /\ users' = [users EXCEPT ![q.uid].token_version = q.copy.token_version + 1]
    /\ sessions' = sessions \ {q.uid}
    /\ revoked' = revoked \cup {k \in 1..Len(pairs) : pairs[k].uid = q.uid}
    /\ inflight' = [inflight EXCEPT ![s] = IdleReq]
    /\ resp' = [Response("logout", 200, "Logged out successfully") EXCEPT
                   !.user = q.uid, !.ref = q.ref, !.refOk = (q.ref # NoTok),
                   !.ver0 = users[q.uid].token_version]
    /\ UNCHANGED <<perms, pairs, expiry, blacklist, oauth>>

\* change_password, lines 150-161: the checks read the request's copy, and
\* user.save() without update_fields writes every column of that copy.
CChangePasswordSave(s) ==
    LET q == inflight[s] IN
    /\ q.op = "change_password" /\ q.pc = "body"
    /\ inflight' = [inflight EXCEPT ![s] = IdleReq]
    /\ IF q.old = Empty \/ q.new = Empty \/ q.copy.password # q.old
       THEN /\ resp' = [Response("change_password", 400,
                           IF q.old = Empty \/ q.new = Empty
                           THEN "Both old and new passwords are required"
                           ELSE "Old password is incorrect") EXCEPT
                           !.user = q.uid, !.ver0 = users[q.uid].token_version]
            /\ UNCHANGED <<users, perms, pairs, expiry, blacklist, sessions, oauth, revoked>>
       ELSE /\ users' = [users EXCEPT ![q.uid] = [q.copy EXCEPT !.password = q.new]]
            /\ sessions' = sessions \ {q.uid}
            /\ resp' = [Response("change_password", 200, "Password changed successfully")
                           EXCEPT !.user = q.uid, !.ver0 = users[q.uid].token_version]
            /\ UNCHANGED <<perms, pairs, expiry, blacklist, oauth, revoked>>

\* change_email, lines 174-179: the uniqueness query
CChangeEmailCheck(s) ==
    LET q == inflight[s] IN
    /\ q.op = "change_email" /\ q.pc = "body"
    /\ IF q.new = Empty \/ (\E o \in UserIds \ {q.uid} : users[o].email = q.new)
       THEN /\ resp' = [Response("change_email", 400,
                           IF q.new = Empty THEN "New email is required"
                           ELSE "Email already exists") EXCEPT
                           !.user = q.uid, !.ver0 = users[q.uid].token_version]
            /\ inflight' = [inflight EXCEPT ![s] = IdleReq]
       ELSE /\ resp' = Idle
            /\ inflight' = [inflight EXCEPT ![s].pc = "save"]
    /\ UNCHANGED <<users, perms, pairs, expiry, blacklist, sessions, oauth, revoked>>

\* unique=True on User.username and User.email: the database refuses a row
\* that repeats the username or the email of another row (IntegrityError).
UniqueViolation(pk, username, email) ==
    \E o \in UserIds \ {pk} : users[o].username = username \/ users[o].email = email

\* change_email, lines 181-183: save(update_fields=['email'])
CChangeEmailSave(s) ==
    LET q == inflight[s] IN
    /\ q.op = "change_email" /\ q.pc = "save"
    /\ inflight' = [inflight EXCEPT ![s] = IdleReq]
    /\ IF UniqueViolation(q.uid, users[q.uid].username, q.new)
       THEN /\ resp' = [Response("change_email", 500, "IntegrityError") EXCEPT
                           !.user = q.uid, !.ver0 = users[q.uid].token_version]
            /\ UNCHANGED <<users, perms, pairs, expiry, blacklist, sessions, oauth, revoked>>
       ELSE /\ users' = [users EXCEPT ![q.uid].email = q.new]
            /\ resp' = [Response("change_email", 200, "Email changed successfully") EXCEPT
                           !.user = q.uid, !.ver0 = users[q.uid].token_version]
            /\ UNCHANGED <<perms, pairs, expiry, blacklist, sessions, oauth, revoked>>

\* Refresh tokens given to the concurrent logouts: none, or a signed one
ConcRefresh == {NoTok} \cup {Refresh(k) : k \in 1..Len(pairs)}

NextConc ==
    \/ \E n \in Usernames, p \in Passwords : Login(n, p)
    \/ \E t \in Presentable : Reject(t)
    \/ \E t \in Presentable : GetInfo(t)
    \/ \E s \in Slots, t \in Presentable, r \in ConcRefresh :
          CAuth(s, "logout", t, r, Empty, Empty)
    \/ \E s \in Slots, t \in Presentable :
          CAuth(s, "change_password", t, NoTok, "pw1", "pw2")
    \/ \E s \in Slots, t \in Presentable :
          CAuth(s, "change_email", t, NoTok, Empty, "b@x")
    \/ \E s \in Slots : CLogoutBlacklist(s)
    \/ \E s \in Slots : CLogoutSave(s)
    \/ \E s \in Slots : CChangePasswordSave(s)
    \/ \E s \in Slots : CChangeEmailCheck(s)
    \/ \E s \in Slots : CChangeEmailSave(s)

SpecConc == Init /\ [][NextConc]_vars

\* ------------------------------------------- the three sign-in paths
NextUserInfo ==
    \/ \E n \in Usernames \cup {Empty}, p \in Passwords \cup {Empty} : Login(n, p)
    \/ \E n \in Usernames \cup {Empty}, e \in Emails \cup {Empty}, p \in {"pw1", Empty} :
          Register(n, e, p)
    \/ \E t \in Presentable : Reject(t)
    \/ \E t \in Presentable : GetInfo(t)
    \/ \E c \in 0..MaxUsers : AdminDenied(c)
    \/ \E c \in 1..MaxUsers, pk \in 1..MaxUsers, d \in ActiveData : AdminPartialUpdate(c, pk, d)
    \/ \E c \in 1..MaxUsers, S \in SUBSET ScopeNames : Grant(c, S)
    \/ \E S \in SUBSET ScopeNames : ClientCredentialsGrant(S)
    \/ \E i \in 1..Len(oauth) : OAuthExpire(i)
    \/ \E h \in Headers : UserInfo(h)

SpecUserInfo == Init /\ [][NextUserInfo]_vars

\* ------------------------------------ claim resolution as a pure function
\* Any one principal, with or without a Permission row, and any one access
\* token row for it, whatever its scope string.
InitClaims ==
    /\ \E n \in Usernames, e \in Emails, p \in 0..1 : users = <<CreateUser(n, e, "pw1", p)>>
    /\ \/ /\ users[1].permission = 0
          /\ perms = <<>>
       \/ /\ users[1].permission = 1
          /\ \E a \in BOOLEAN, c \in BOOLEAN : perms = <<NewPermission(a, c)>>
    /\ \E S \in SUBSET ScopeNames, x \in BOOLEAN :
          oauth = <<[alive |-> TRUE, uid |-> 1, scope |-> S, expired |-> x]>>
    /\ pairs = <<>>
    /\ expiry = <<>>
    /\ blacklist = {}
    /\ sessions = {}
    /\ inflight = [s \in Slots |-> IdleReq]
    /\ revoked = {}
    /\ resp = Idle

NextClaims ==
    \/ \E h \in Headers : UserInfo(h)
    \/ \E u \in 0..1, S \in SUBSET ScopeNames : AdditionalClaims(u, S)
    \/ \E S \in SUBSET ScopeNames : ValidateScopesCall(S)

SpecClaims == InitClaims /\ [][NextClaims]_vars

\* ------------------------------------------------- portal and gate routes
NextChars == {"/", ":", "a", "?"}

\* Every value of the next parameter up to MaxNextLen characters
NextValues == UNION {[1..n -> NextChars] : n \in 0..MaxNextLen}

\* request.get_full_path() of the guarded routes
AdminPaths == {<<"/", "admin", "/">>, <<"/", "admin", "/", "?", "tab">>}
ApplicationPaths == {<<"/", "oauth", "/", "applications", "/">>}

\* Admin payloads that set the two permission flags
PermissionData ==
    {[email |-> Absent, is_active |-> Absent,
      permission |-> [given |-> TRUE, admin_user |-> a, create_applications |-> ca]] :
        a \in {"true", "false"}, ca \in {"true", "false", Absent}}

\* The first account (createsuperuser) has no Permission row until the Django
\* admin site gives it one, with either flag.
InitPortal ==
    /\ \E p \in 0..1 : users = <<CreateUser("alice", "a@x", "pw1", p)>>
    /\ \/ /\ users[1].permission = 0
          /\ perms = <<>>
       \/ /\ users[1].permission = 1
          /\ \E a \in BOOLEAN, c \in BOOLEAN : perms = <<NewPermission(a, c)>>
    /\ pairs = <<>>
    /\ expiry = <<>>
    /\ blacklist = {}
    /\ sessions = {}
    /\ oauth = <<>>
    /\ inflight = [s \in Slots |-> IdleReq]
    /\ revoked = {}
    /\ resp = Idle

NextPortal ==
    \/ \E n \in Usernames : Login(n, "pw1")
    \/ Register("bob", "b@x", "pw1")
    \/ \E c \in 0..MaxUsers : AdminDenied(c)
    \/ \E c \in 1..MaxUsers : AdminList(c)
    \/ \E c \in 1..MaxUsers, pk \in 1..MaxUsers, d \in PermissionData :
          AdminPartialUpdate(c, pk, d)
    \/ \E c \in 0..MaxUsers, path \in AdminPaths : AdminPortal(c, path)
    \/ \E c \in 0..MaxUsers, path \in ApplicationPaths : Applications(c, path)

SpecPortal == InitPortal /\ [][NextPortal]_vars

\* ------------------------------------- the return target as a pure function
NextReturnTarget == \E next_url \in NextValues : Portal(next_url)

SpecReturnTarget == Init /\ [][NextReturnTarget]_vars

\* ------------------------------------------- token revocation by logout
NextRevoke ==
    \/ \E n \in Usernames : Login(n, "pw1")
    \/ Register("bob", "b@x", "pw1")
    \/ \E t \in Presentable : Reject(t)
    \/ \E t \in Presentable, r \in Presentable : Logout(t, r)
    \/ \E t \in Presentable : GetInfo(t)
    \/ \E t \in Presentable : ChangePassword(t, "pw1", "pw2")
    \/ \E k \in 1..Len(pairs) : Expire(k)

SpecRevoke == Init /\ [][NextRevoke]_vars

\* --------------------------------- account writes served concurrently
\* Each ORM call commits on its own: the handlers open no transaction.
\* register, lines 75-77: UserAuthSerializer.is_valid
CRegisterValidate(s, username, email, password) ==
    /\ inflight[s] = IdleReq
    /\ IF ~UserAuthSerializerValid(username, email, password)
       THEN /\ resp' = Response("register", 400, "validation")
            /\ UNCHANGED inflight
       ELSE /\ resp' = Idle
            /\ inflight' = [inflight EXCEPT ![s] =
                  [IdleReq EXCEPT !.op = "register", !.pc = "permission",
                      !.name = username, !.new = email, !.password = password,
                      !.flags = NewPermission(FALSE, CreateApplicationsDefault)]]
    /\ UNCHANGED <<users, perms, pairs, expiry, blacklist, sessions, oauth, revoked>>

\* AdminUserViewSet.create, lines 83-84: AdminCreateUserSerializer.is_valid
CAdminCreateValidate(s, c, username, email, password, a, ca) ==
    /\ inflight[s] = IdleReq
    /\ IsPortalAdmin(SessionUser(c))
    /\ IF username = Empty \/ email = Empty \/ password = Empty
          \/ (\E o \in UserIds : users[o].username = username)
          \/ (\E o \in UserIds : users[o].email = email)
       THEN /\ resp' = [Response("admin_create", 400, "validation") EXCEPT !.user = c]
            /\ UNCHANGED inflight
       ELSE /\ resp' = Idle
            /\ inflight' = [inflight EXCEPT ![s] =
                  [IdleReq EXCEPT !.op = "admin_create", !.pc = "permission", !.uid = c,
                      !.name = username, !.new = email, !.password = password,
                      !.flags = NewPermission(a, ca)]]
    /\ UNCHANGED <<users, perms, pairs, expiry, blacklist, sessions, oauth, revoked>>

\* Permission.objects.create(...): register line 79, serializer create line 80
CCreatePermission(s) ==
    LET q == inflight[s] IN
    /\ q.op \in {"register", "admin_create"} /\ q.pc = "permission"
    /\ Len(perms) < MaxPerms
    /\ perms' = Append(perms, q.flags)
    /\ inflight' = [inflight EXCEPT ![s].pc = "insert", ![s].perm = Len(perms) + 1]
    /\ resp' = Idle
    /\ UNCHANGED <<users, pairs, expiry, blacklist, sessions, oauth, revoked>>

\* register, lines 80-90: create_user, auth_login, the token pair
CRegisterInsert(s) ==
    LET q == inflight[s]
        id == Len(users) + 1
        row == CreateUser(q.name, q.new, q.password, q.perm) IN
    /\ q.op = "register" /\ q.pc = "insert"
    /\ inflight' = [inflight EXCEPT ![s] = IdleReq]
    /\ IF UniqueViolation(0, q.name, q.new)
       THEN /\ resp' = Response("register", 500, "IntegrityError")
            /\ UNCHANGED <<users, perms, pairs, expiry, blacklist, sessions, oauth, revoked>>
       ELSE /\ Len(users) < MaxUsers
            /\ Len(pairs) < MaxPairs
            /\ users' = Append(users, row)
            /\ pairs' = Append(pairs, CreateTokenPayload(id, row))
            /\ expiry' = Append(expiry, 0)
            /\ sessions' = sessions \cup {id}
            /\ resp' = [Response("register", 200, "") EXCEPT !.user = id,
                           !.tok = Access(Len(pairs) + 1), !.ref = Refresh(Len(pairs) + 1),
                           !.ver0 = row.token_version]
            /\ UNCHANGED <<perms, blacklist, oauth, revoked>>

\* AdminCreateUserSerializer.create, lines 84-90: create_user
CAdminCreateInsert(s) ==
    LET q == inflight[s] IN
    /\ q.op = "admin_create" /\ q.pc = "insert"
    /\ inflight' = [inflight EXCEPT ![s] = IdleReq]
    /\ IF UniqueViolation(0, q.name, q.new)
       THEN /\ resp' = [Response("admin_create", 500, "IntegrityError") EXCEPT !.user = q.uid]
            /\ UNCHANGED <<users, perms, pairs, expiry, blacklist, sessions, oauth, revoked>>
       ELSE /\ Len(users) < MaxUsers
            /\ users' = Append(users, CreateUser(q.name, q.new, q.password, q.perm))
            /\ resp' = [Response("admin_create", 201, "") EXCEPT !.user = q.uid,
                           !.body = Len(users) + 1]
            /\ UNCHANGED <<perms, pairs, expiry, blacklist, sessions, oauth, revoked>>

\* AdminUserViewSet.partial_update, lines 90-92: get_object_or_404, is_valid
CAdminUpdateValidate(s, c, pk, d) ==
    /\ inflight[s] = IdleReq
    /\ IsPortalAdmin(SessionUser(c))
    /\ IF ~Exists(pk)
       THEN /\ resp' = [Response("admin_update", 404, "Not found.") EXCEPT !.user = c]
            /\ UNCHANGED inflight
       ELSE IF d.email = Empty
               \/ (d.email # Absent /\ \E o \in UserIds \ {pk} : users[o].email = d.email)
       THEN /\ resp' = [Response("admin_update", 400, "validation") EXCEPT !.user = c]
            /\ UNCHANGED inflight
       ELSE /\ resp' = Idle
            /\ inflight' = [inflight EXCEPT ![s] =
                  [IdleReq EXCEPT !.op = "admin_update", !.pc = "save", !.uid = c,
                      !.pk = pk, !.data = d]]
    /\ UNCHANGED <<users, perms, pairs, expiry, blacklist, sessions, oauth, revoked>>

\* AdminUserViewSet.partial_update, line 93: serializer.save()
CAdminUpdateSave(s) ==
    LET q == inflight[s] IN
    /\ q.op = "admin_update" /\ q.pc = "save"
    /\ inflight' = [inflight EXCEPT ![s] = IdleReq]
    /\ IF q.data.email # Absent /\ UniqueViolation(q.pk, users[q.pk].username, q.data.email)
       THEN /\ resp' = [Response("admin_update", 500, "IntegrityError") EXCEPT !.user = q.uid]
            /\ UNCHANGED <<users, perms, pairs, expiry, blacklist, sessions, oauth, revoked>>
       ELSE /\ AdminUserSerializerUpdate(q.pk, q.data)
            /\ resp' = [Response("admin_update", 200, "") EXCEPT !.user = q.uid, !.body = q.pk]
            /\ UNCHANGED <<pairs, expiry, blacklist, sessions, oauth, revoked>>

\* Admin payloads that set only the email
EmailData == {[email |-> e, is_active |-> Absent, permission |-> NoPermissionData] :
                e \in Emails}

NextUnique ==
    \/ \E n \in Usernames : Login(n, "pw1")
    \/ \E s \in Slots, n \in Usernames, e \in Emails : CRegisterValidate(s, n, e, "pw1")
    \/ \E s \in Slots, c \in 1..MaxUsers, n \in Usernames, e \in Emails :
          CAdminCreateValidate(s, c, n, e, "pw1", FALSE, FALSE)
    \/ \E s \in Slots : CCreatePermission(s)
    \/ \E s \in Slots : CRegisterInsert(s)
    \/ \E s \in Slots : CAdminCreateInsert(s)
    \/ \E s \in Slots, c \in 1..MaxUsers, pk \in 1..MaxUsers, d \in EmailData :
          CAdminUpdateValidate(s, c, pk, d)
    \/ \E s \in Slots : CAdminUpdateSave(s)
    \/ \E s \in Slots, t \in Presentable, e \in Emails :
          CAuth(s, "change_email", t, NoTok, Empty, e)
    \/ \E s \in Slots : CChangeEmailCheck(s)
    \/ \E s \in Slots : CChangeEmailSave(s)

SpecUnique == Init /\ [][NextUnique]_vars

\* ------------------------------------------- who can grant a capability
\* Admin payloads: the active flag or permission flags
AdminData == ActiveData \cup PermissionData

NextCapability ==
    \/ \E n \in Usernames : Login(n, "pw1")
    \/ Register("bob", "b@x", "pw1")
    \/ \E t \in Presentable : Reject(t)
    \/ \E t \in Presentable : Logout(t, NoTok)
    \/ \E t \in Presentable, pk \in 1..MaxUsers : Destroy(t, pk)
    \/ \E t \in Presentable : SerializerRoute(t)
    \/ \E t \in Presentable : GetInfo(t)
    \/ \E t \in Presentable : ChangePassword(t, "pw1", "pw2")
    \/ \E t \in Presentable : ChangeEmail(t, "b@x")
    \/ \E c \in 0..MaxUsers : AdminDenied(c)
    \/ \E c \in 1..MaxUsers : AdminList(c)
    \/ \E c \in 1..MaxUsers, pk \in 1..MaxUsers, d \in AdminData : AdminPartialUpdate(c, pk, d)
    \/ \E c \in 1..MaxUsers, a \in BOOLEAN, ca \in BOOLEAN :
          AdminCreate(c, "bob", "b@x", "pw1", a, ca)

SpecCapability == InitPortal /\ [][NextCapability]_vars

\* ------------------------------------------------------------- properties
\* Operations that run behind the bearer-token authentication
BearerHandlers ==
    {"logout", "destroy", "model_route", "get_info", "change_password", "change_email"}

\* The access token the last request was authenticated by, if any
AcceptedAccess == IF resp.op \in BearerHandlers THEN {resp.tok} ELSE {}

\* The refresh token the last request (a logout) accepted, if any
AcceptedRefresh == IF resp.op = "logout" /\ resp.refOk THEN {resp.ref} ELSE {}

LoggedOut == resp.op = "logout" /\ resp.status = 200

\* A pair whose principal is there and active and has not logged out since
Current(k) ==
    /\ Exists(pairs[k].uid)
    /\ users[pairs[k].uid].is_active
    /\ k \notin revoked

\* C1 (as claimed): once a logout by P has returned success, no access or
\* refresh token issued for P before it is accepted by a later request, and
\* the tokens of a pair issued by a later login of P are accepted.
LaterPairAccepted ==
    \A k \in 1..Len(pairs) :
        (Current(k) /\ ~IsExpired(Access(k))) => Verify(Access(k)).uid = pairs[k].uid

C1_RevokedRejected ==
    /\ [][\A t \in AcceptedAccess' \cup AcceptedRefresh' : t.k \notin revoked]_vars
    /\ []LaterPairAccepted

\* C1, the access-token half: an access token issued for P before a
\* successful logout of P authenticates no later request.
C1_AccessRevoked ==
    [][\A t \in AcceptedAccess' : t.k \notin revoked]_vars

\* A stale refresh token of a logged-out principal reaches a logout
C1_Reached ==
    /\ LoggedOut
    /\ resp.refOk
    /\ resp.ref.k \in revoked
    /\ pairs[resp.ref.k].ver < resp.refVer0

\* C2 (as claimed): whenever a token is accepted for principal P (an access
\* token by the bearer authentication, a refresh token by logout), the epoch
\* embedded in it equals P's stored session epoch at the moment of acceptance.
C2_EpochMatchesOnAccept ==
    /\ \A t \in AcceptedAccess : pairs[t.k].ver = resp.ver0
    /\ \A t \in AcceptedRefresh : pairs[t.k].ver = resp.refVer0

\* C2, the access-token half, which the bearer authentication enforces
C2_AccessEpochMatches ==
    \A t \in AcceptedAccess : pairs[t.k].ver = resp.ver0 /\ pairs[t.k].uid = resp.user

Issued == resp.op \in {"login", "register"} /\ resp.status = 200

\* Both tokens of the pair just returned embed the principal's stored epoch
EmbedsCurrentEpoch ==
    Issued => /\ resp.tok.k = resp.ref.k
              /\ pairs[resp.tok.k].uid = resp.user
              /\ pairs[resp.tok.k].ver = users[resp.user].token_version

\* C3 (as claimed): the pair a successful login or register returns embeds
\* P's current epoch in both tokens, and both tokens are accepted when
\* presented before any logout of P and before their expiry, P being active.
C3_IssuedPairAccepted ==
    /\ EmbedsCurrentEpoch
    /\ \A k \in 1..Len(pairs) :
          Current(k) =>
             /\ ~IsExpired(Access(k)) => Verify(Access(k)).uid = pairs[k].uid
             /\ ~IsExpired(Refresh(k)) => RefreshTokenValid(Refresh(k))

\* C3 (amended): the same, for a refresh token that no logout request (of
\* any principal) has been given yet.
C3_IssuedPairAcceptedUnlessPresented ==
    /\ EmbedsCurrentEpoch
    /\ \A k \in 1..Len(pairs) :
          Current(k) =>
             /\ ~IsExpired(Access(k)) => Verify(Access(k)).uid = pairs[k].uid
             /\ (~IsExpired(Refresh(k)) /\ k \notin blacklist)
                    => RefreshTokenValid(Refresh(k))

\* A fresh pair was just issued to a principal with an earlier logout, while
\* another pair of an unrevoked principal is still live
C3_Witness ==
    /\ Issued
    /\ users[resp.user].token_version > 0
    /\ Verify(resp.tok).uid = resp.user
    /\ RefreshTokenValid(resp.ref)

\* C5 (as claimed): a logout whose caller is authenticated by a valid access
\* token increments the caller's epoch, whatever the refresh token in the body.
C5_LogoutAlwaysIncrements ==
    resp.op = "logout" => users[resp.user].token_version = resp.ver0 + 1

\* An authenticated logout was answered 400 for its refresh token
C5_Reached == resp.op = "logout" /\ resp.status = 400

\* C4 (as claimed): under any interleaving of concurrent requests that work
\* on their own copy of the principal's row, a principal's stored session
\* epoch starts at 0 and no write to it ever lowers it.
C4_EpochNeverDecreases ==
    /\ \A u \in UserIds : users[u].token_version = 0
    /\ [][\A u \in UserIds \cap UserIds' :
             users'[u].token_version >= users[u].token_version]_vars
\* Requests that resolve a principal without changing its row
SignInOps == {"login", "logout", "get_info", "change_password", "change_email", "userinfo"}

\* C6 (as claimed): no request is resolved to a principal whose active flag is
\* false, by password login, by bearer-token verification or by the userinfo
\* endpoint with an OAuth2 access token.
C6_NeverResolvesInactive ==
    (resp.op \in SignInOps /\ resp.user # 0) =>
        (Exists(resp.user) /\ users[resp.user].is_active)

\* C6 on the two paths that check the flag: password login, bearer token
C6_LoginAndBearerActive ==
    (resp.op \in SignInOps \ {"userinfo"} /\ resp.user # 0) =>
        (Exists(resp.user) /\ users[resp.user].is_active)

\* The userinfo endpoint answered for a deactivated principal
C6_Reached ==
    /\ resp.op = "userinfo" /\ resp.status = 200
    /\ ~users[resp.user].is_active

\* The caller the last response names held the admin flag before the request
CallerWasAdmin ==
    /\ Exists(resp'.user)
    /\ PermissionOf(resp'.user) # 0
    /\ perms[PermissionOf(resp'.user)].admin_user

\* C7 (as claimed): through every route of the bearer API and of the admin
\* API, a request by a principal without admin_user = true never changes or
\* removes the record of a different principal.
C7_OnlyAdminTouchesOthers ==
    [][\A u \in UserIds :
          users'[u] # users[u] => (resp'.user = u \/ CallerWasAdmin)]_vars

\* A principal without the admin flag has deleted another principal's record
C7_Reached ==
    /\ resp.op = "destroy" /\ resp.status = 204
    /\ Exists(resp.user)
    /\ ~IsPortalAdmin(resp.user)

\* C8: the claim map of the userinfo endpoint for principal P and granted
\* scopes S is exactly sub = P's id as a string, username iff 'username' in
\* S, email iff 'email' in S, permissions iff 'permissions' in S with the two
\* flags of P's Permission row (both false without a row), and no other key.
C8_UserInfoClaimMap ==
    (resp.op = "userinfo" /\ resp.status = 200) =>
        LET P == resp.user
            S == resp.scopes
            b == resp.body
        IN /\ DOMAIN b = {"sub"} \cup (S \cap {"username", "email", "permissions"})
           /\ b["sub"] = ToString(P)
           /\ "username" \in S => b["username"] = users[P].username
           /\ "email" \in S => b["email"] = users[P].email
           /\ "permissions" \in S =>
                 b["permissions"] =
                    IF users[P].permission = 0
                    THEN [admin_user |-> FALSE, create_applications |-> FALSE]
                    ELSE [admin_user |-> perms[users[P].permission].admin_user,
                          create_applications |->
                              perms[users[P].permission].create_applications]

\* Userinfo answered for a principal without a Permission row whose token
\* carries 'permissions' and a scope outside the three
C8_Witness ==
    /\ resp.op = "userinfo" /\ resp.status = 200
    /\ users[resp.user].permission = 0
    /\ {"permissions", "admin"} \subseteq resp.scopes
    /\ DOMAIN resp.body = {"sub", "permissions"}

C10_ScopeAllowList ==
    resp.op = "validate_scopes" =>
        ((resp.status = 200) <=> (resp.scopes \subseteq {"username", "email", "permissions"}))

\* A list mixing an allowed scope with 'admin' was rejected as a whole
C10_Witness ==
    /\ resp.op = "validate_scopes"
    /\ resp.scopes = {"email", "admin"}
    /\ resp.status = 400

\* is_admin as the data model defines it: a resolved principal whose
\* Permission record exists with admin_user = true
IsAdmin(u) ==
    /\ u # 0
    /\ users[u].permission # 0
    /\ perms[users[u].permission].admin_user

\* can_create_applications as the data model defines it
CanCreateApplications(u) ==
    /\ u # 0
    /\ users[u].permission # 0
    /\ perms[users[u].permission].create_applications

PortalRouteOps == {"admin_portal", "applications"}

RoutePredicate(op, u) ==
    IF op = "admin_portal" THEN IsAdmin(u) ELSE CanCreateApplications(u)

RedirectedToLogin ==
    /\ resp.status = 302
    /\ resp.body.location = LoginPortal
    /\ QueryValue(resp.body.next) = resp.body.path

\* C11 (as claimed): on every guarded portal-style route (admin portal, OAuth2
\* application management) an unauthenticated request is redirected to the
\* login portal with the requested path as return target, an authenticated
\* request failing the predicate gets 403, and only an authenticated request
\* passing it reaches the view; an unauthenticated one never gets 403 or the view.
C11_PortalStateMachine ==
    resp.op \in PortalRouteOps =>
        /\ resp.user = 0 => RedirectedToLogin
        /\ (resp.user # 0 /\ ~RoutePredicate(resp.op, resp.user)) => resp.status = 403
        /\ resp.status = 200 => (resp.user # 0 /\ RoutePredicate(resp.op, resp.user))

\* C11 on the admin portal alone, whose dispatch implements the state machine
C11_AdminPortalStateMachine ==
    resp.op = "admin_portal" =>
        /\ resp.user = 0 => RedirectedToLogin
        /\ (resp.user # 0 /\ ~IsAdmin(resp.user)) => resp.status = 403
        /\ resp.status = 200 => IsAdmin(resp.user)

\* An anonymous request to an application-management route was answered 403
C11_Reached ==
    /\ resp.op = "applications"
    /\ resp.user = 0
    /\ resp.status = 403

\* A reference that begins with exactly one '/': a path on the same origin.
\* One that begins with '//' names a network location (RFC 3986, 4.2).
SameOriginPath(url) ==
    /\ Len(url) >= 1
    /\ url[1] = "/"
    /\ ~(Len(url) >= 2 /\ url[2] = "/")

\* C12 (as claimed): for every value of the next parameter the return target
\* the login portal echoes is empty or a relative path that begins with '/'
\* and has no scheme and no host, and a value carrying a scheme or a network
\* location is replaced by the empty target.
C12_ReturnTargetRelative ==
    resp.op = "portal" =>
        /\ \/ resp.body.nextUrl = <<>>
           \/ SameOriginPath(resp.body.nextUrl)
        /\ (UrlParse(resp.body.next).scheme # <<>> \/ UrlParse(resp.body.next).netloc # <<>>)
              => resp.body.nextUrl = <<>>

\* C12 as urlparse reads the echoed target: it is empty, or it begins with
\* '/' and urlparse finds neither a scheme nor a netloc in it.
C12_ReturnTargetUrlparse ==
    resp.op = "portal" =>
        /\ \/ resp.body.nextUrl = <<>>
           \/ /\ resp.body.nextUrl[1] = "/"
              /\ UrlParse(resp.body.nextUrl).scheme = <<>>
              /\ UrlParse(resp.body.nextUrl).netloc = <<>>
        /\ (UrlParse(resp.body.next).scheme # <<>> \/ UrlParse(resp.body.next).netloc # <<>>)
              => resp.body.nextUrl = <<>>

\* The portal echoed a target that begins with '//'
C12_Reached ==
    /\ resp.op = "portal"
    /\ Len(resp.body.nextUrl) >= 2
    /\ resp.body.nextUrl[1] = "/" /\ resp.body.nextUrl[2] = "/"

\* C14: is_admin holds exactly for an authenticated caller whose Permission
\* record exists with admin_user = true (false without a record, false with
\* admin_user = false), and the API gate IsPortalAdmin and the portal gate
\* AdminPermissionRequiredMixin give that same answer for every principal.
C14_GatesAgree ==
    /\ \A u \in UserIds \cup {0} :
          /\ IsPortalAdmin(u) <=> IsAdmin(u)
          /\ (AdminPortalDispatch(u) = "view") <=> IsAdmin(u)
    /\ resp.op = "admin_portal" => ((resp.status = 200) <=> IsAdmin(resp.user))
    /\ resp.op = "admin" => (resp.status = 403 /\ ~IsAdmin(resp.user))
    /\ resp.op = "admin_list" => (resp.status = 200 /\ IsAdmin(resp.user))

\* The portal gate refused a logged-in principal whose Permission record has
\* admin_user = false, while an admin and a principal with no record exist
C14_Witness ==
    /\ resp.op = "admin_portal" /\ resp.status = 403
    /\ resp.user # 0
    /\ users[resp.user].permission # 0
    /\ ~IsPortalAdmin(resp.user)
    /\ \E u \in UserIds : IsPortalAdmin(u) /\ AdminPortalDispatch(u) = "view"

\* C13 (as claimed): any two bearer-API requests whose token verification
\* fails for different reasons (malformed, expired, epoch mismatch after
\* logout, inactive principal) get responses identical in status and body.
C13_FailuresIndistinguishable ==
    \A t1 \in Presentable \ {NoTok}, t2 \in Presentable \ {NoTok} :
        (Verify(t1).uid = 0 /\ Verify(t2).uid = 0) => Unauthorized(t1) = Unauthorized(t2)

\* A request was refused for the epoch of its token
C13_Reached ==
    /\ resp.op = "bearer" /\ resp.status = 401
    /\ resp.detail = "Token version mismatch"

\* The header of the last userinfo request names no usable token
UserInfoRefusable ==
    \/ resp.tok.type # "bearer"
    \/ ~(resp.tok.k \in 1..Len(oauth) /\ oauth[resp.tok.k].alive)
    \/ oauth[resp.tok.k].expired

\* C16 (as claimed): GET /userinfo answers 401 with no claim when the
\* Authorization header is missing or not a Bearer header, the token is
\* unknown to the token store, or the token is expired, and in every other
\* case answers with the claim map of the token's principal and scopes.
C16_UserInfoOutcomes ==
    resp.op = "userinfo" =>
        /\ UserInfoRefusable => (resp.status = 401 /\ resp.body = NoBody)
        /\ ~UserInfoRefusable =>
              /\ resp.status = 200
              /\ resp.user = oauth[resp.tok.k].uid
              /\ resp.body = UserInfoClaims(resp.user, oauth[resp.tok.k].scope)

\* C16 for tokens that have a principal
C16_UserInfoOutcomesWithUser ==
    resp.op = "userinfo" =>
        /\ UserInfoRefusable => (resp.status = 401 /\ resp.body = NoBody)
        /\ (~UserInfoRefusable /\ oauth[resp.tok.k].uid # 0) =>
              /\ resp.status = 200
              /\ resp.user = oauth[resp.tok.k].uid
              /\ resp.body = UserInfoClaims(resp.user, oauth[resp.tok.k].scope)

\* Userinfo was asked with a live token that has no principal
C16_Reached ==
    /\ resp.op = "userinfo"
    /\ ~UserInfoRefusable
    /\ oauth[resp.tok.k].uid = 0

\* C17: after a successful logout that presented refresh token r, r is in
\* the blacklist (and stays there), and every later request that presents r
\* as a refresh token is rejected as an invalid token, changing nothing,
\* whatever the principal's session epoch is at that time.
C17_BlacklistedRefreshRejected ==
    /\ []((LoggedOut /\ resp.refOk) => resp.ref.k \in blacklist)
    /\ [][blacklist \subseteq blacklist']_vars
    /\ [][(resp'.op = "logout" /\ resp'.ref.type = "refresh" /\ resp'.ref.k \in blacklist)
             => /\ resp'.status = 400
                /\ resp'.detail = "Invalid token"
                /\ ~resp'.refOk
                /\ users' = users
                /\ blacklist' = blacklist]_vars

\* A blacklisted refresh token whose embedded epoch still equals its
\* principal's stored epoch was presented again and refused
C17_Witness ==
    /\ resp.op = "logout" /\ resp.status = 400
    /\ resp.ref.type = "refresh"
    /\ resp.ref.k \in blacklist
    /\ StoredEpoch(resp.ref) = pairs[resp.ref.k].ver

\* C18 (as claimed): with requests interleaved at the granularity of single
\* store reads and writes (two logouts of one principal at once, a logout
\* beside a change-password), no access token issued for P before a logout
\* of P returned success is accepted by a request that starts afterwards.
C18_NoStaleAccessAfterLogout ==
    \A k \in revoked : Verify(Access(k)).uid = 0

\* A change-password that began before a logout of the same principal
\* returned has saved its copy of the row after it
C18_Reached ==
    /\ resp.op = "change_password" /\ resp.status = 200
    /\ \E k \in revoked : pairs[k].uid = resp.user

\* C19 (as claimed): the two effects of a logout that presents refresh token
\* r (r blacklisted, the principal's epoch incremented) are one atomic step:
\* no store state has exactly one of them applied, during or after the logout.
C19_LogoutAtomic ==
    /\ \A s \in Slots :
          (inflight[s].op = "logout" /\ inflight[s].ref # NoTok)
              => ~(inflight[s].pc = "save" /\ inflight[s].ref.k \in blacklist)
    /\ (LoggedOut /\ resp.refOk) =>
          /\ resp.ref.k \in blacklist
          /\ users[resp.user].token_version = resp.ver0 + 1

\* A logout has blacklisted its refresh token and not yet saved the epoch
C19_Reached ==
    \E s \in Slots :
        /\ inflight[s].op = "logout" /\ inflight[s].pc = "save"
        /\ inflight[s].ref # NoTok
        /\ inflight[s].ref.k \in blacklist
        /\ users[inflight[s].uid].token_version = inflight[s].copy.token_version

\* The step belongs to a logout request of principal u
LogoutStepBy(u) ==
    \/ resp'.op = "logout" /\ resp'.status = 200 /\ resp'.user = u
    \/ \E s \in Slots : /\ inflight[s].op = "logout"
                        /\ inflight[s].uid = u
                        /\ inflight'[s] # inflight[s]

\* C20 (as claimed): only a successful logout by P changes P's stored session
\* epoch; login, register, settings info, change-password, change-email,
\* admin update, userinfo and every request refused at authentication leave
\* every epoch and the blacklist unchanged, and a logout by P leaves the
\* epoch of every other principal unchanged.
C20_OnlyLogoutWritesEpoch ==
    /\ [][\A u \in UserIds \cap (1..Len(users')) :
             (users'[u].alive /\ users'[u].token_version # users[u].token_version)
                 => LogoutStepBy(u)]_vars
    /\ [][blacklist' # blacklist => \E u \in UserIds : LogoutStepBy(u)]_vars

\* A change-password request has written a session epoch
C20_Reached ==
    /\ resp.op = "change_password" /\ resp.status = 200
    /\ users[resp.user].token_version # resp.ver0

\* No two principals share a username, no two share an email
UniqueIdentity ==
    \A u \in UserIds, v \in UserIds :
        u # v => (users[u].username # users[v].username /\ users[u].email # users[v].email)

UniqueOps == {"register", "change_email", "admin_create", "admin_update"}

\* C15 (as claimed): under any interleaving of register, change-email, admin
\* create-user and admin update-user requests no two principals share a
\* username or an email, and a request that would introduce a duplicate is
\* rejected and leaves the store unchanged.
C15_UniqueAndUntouched ==
    /\ []UniqueIdentity
    /\ [][(resp'.op \in UniqueOps /\ resp'.status >= 400) =>
             /\ users' = users
             /\ perms' = perms
             /\ \A s \in Slots : inflight'[s] # inflight[s] => inflight[s].perm = 0]_vars

\* C15, the uniqueness half, which the unique columns enforce
C15_Unique == UniqueIdentity

\* A register or admin create-user lost a uniqueness race after its
\* Permission row had been written
C15_Reached ==
    /\ resp.op \in {"register", "admin_create"} /\ resp.status = 500
    /\ \E p \in 1..Len(perms) : \A u \in UserIds : users[u].permission # p

\* C21: an OAuth2 application-management route is reached exactly when the
\* caller is authenticated and its Permission record has create_applications
\* = true, whatever admin_user is: an admin without create_applications is
\* refused, a non-admin with create_applications is let in.
C21_ApplicationsGate ==
    /\ \A u \in UserIds \cup {0} :
          (ApplicationsDispatch(u) = "view") <=> CanCreateApplications(u)
    /\ resp.op = "applications" =>
          /\ (resp.status = 200) <=> CanCreateApplications(resp.user)
          /\ (IsAdmin(resp.user) /\ ~CanCreateApplications(resp.user)) => resp.status = 403
          /\ (~IsAdmin(resp.user) /\ CanCreateApplications(resp.user)) => resp.status = 200

\* An admin without create_applications was refused while a principal that is
\* not admin and has create_applications passes the gate
C21_Witness ==
    /\ resp.op = "applications" /\ resp.status = 403
    /\ IsPortalAdmin(resp.user)
    /\ ~TestFunc(resp.user)
    /\ \E u \in UserIds : /\ u \in sessions
                          /\ ~IsPortalAdmin(u)
                          /\ ApplicationsDispatch(u) = "view"

\* Permission rows a request still in flight has written and not yet attached
PendingPermissions == {inflight[s].perm : s \in Slots} \ {0}

Owners(p) == {u \in UserIds : users[u].permission = p}

\* C22 (as claimed): every Permission record is referenced by exactly one
\* Principal: none is shared and none is left without an owner, also after a
\* register or admin create-user request that failed or lost a uniqueness
\* race after its Permission was created, and after a principal is deleted.
C22_PermissionOwnedByOne ==
    \A p \in (1..Len(perms)) \ PendingPermissions : Cardinality(Owners(p)) = 1

\* C22, the half the one-to-one column enforces: no Permission is shared
C22_NotShared ==
    \A p \in 1..Len(perms) : Cardinality(Owners(p)) <= 1

\* A request has ended and a Permission row it wrote has no owner
C22_Reached ==
    /\ resp.status = 500
    /\ \E p \in (1..Len(perms)) \ PendingPermissions : Owners(p) = {}

\* The two capability flags of principal u in the tables us, ps
HasAdminFlag(us, ps, u) ==
    /\ u \in 1..Len(us) /\ us[u].alive
    /\ us[u].permission # 0
    /\ ps[us[u].permission].admin_user

HasCreateFlag(us, ps, u) ==
    /\ u \in 1..Len(us) /\ us[u].alive
    /\ us[u].permission # 0
    /\ ps[us[u].permission].create_applications

NoAdmin(us, ps) == \A u \in 1..Len(us) : ~HasAdminFlag(us, ps, u)

\* The step is a request whose caller satisfied is_admin when it was made
ByAdmin ==
    /\ resp'.op \in {"admin_update", "admin_create"}
    /\ HasAdminFlag(users, perms, resp'.user)

\* C23: self-registration yields a principal whose Permission has admin_user
\* = false and create_applications = false; a Permission flag of any principal
\* goes from false to true only inside a request whose caller satisfies
\* is_admin at that time; so from a state with no admin no sequence of
\* bearer-API, settings and admin-API requests reaches a state with an admin.
C23_NoSelfGrantedCapability ==
    /\ []((resp.op = "register" /\ resp.status = 200) =>
             /\ users[resp.user].permission # 0
             /\ perms[users[resp.user].permission] =
                   [admin_user |-> FALSE, create_applications |-> FALSE])
    /\ [][\A u \in 1..Len(users') :
             (HasAdminFlag(users', perms', u) /\ ~HasAdminFlag(users, perms, u)) => ByAdmin]_vars
    /\ [][\A u \in 1..Len(users') :
             (HasCreateFlag(users', perms', u) /\ ~HasCreateFlag(users, perms, u)) => ByAdmin]_vars
    /\ [][NoAdmin(users, perms) => NoAdmin(users', perms')]_vars

\* With no admin in the store, a registered and logged-in principal asked the
\* admin API and was refused
C23_Witness ==
    /\ NoAdmin(users, perms)
    /\ resp.op = "admin" /\ resp.status = 403
    /\ resp.user # 0
    /\ Len(users) >= 2
    /\ \E u \in UserIds : users[u].permission # 0
====
